---- MODULE Spec2Model ----
(***************************************************************************)
(* Model of lib/models.js (class Path) of advanced-open-file.              *)
(*                                                                         *)
(* A string is a sequence of one-character strings.  The host is a POSIX   *)
(* host: stdPath.sep is "/" and stdPath.dirname is Node's path.posix       *)
(* dirname.  The helpers imported from ./utils (preferredSeparatorFor,     *)
(* absolutify, getProjectPath) are modelled from their description.        *)
(***************************************************************************)
EXTENDS Integers, Sequences, FiniteSets, TLC

VARIABLES base, prev, cur, op, prevOp, pc, last, current, iters, token, answer,
          paths, caseSensitive, sorted, thrown,
          pref, editor, projectPath

vars == <<base, prev, cur, op, prevOp, pc, last, current, iters, token, answer,
          paths, caseSensitive, sorted, thrown, pref, editor, projectPath>>

pathVars == <<prev, cur, op, prevOp>>
loopVars == <<pc, last, current, iters>>
queryVars == <<token, answer>>
prefixVars == <<paths, caseSensitive, sorted, thrown>>
hostVars == <<pref, editor, projectPath>>

(***************************************************************************)
(* Bounds and input domains                                                *)
(***************************************************************************)
MaxLen == 4
MaxTokenLen == 1
MaxPaths == 3
MaxPrefixLen == 2
MaxHostLen == 2

Alphabet == {"/", "\\", ".", "a", ":"}
TokenAlphabet == {":", "a", "/"}
PrefixAlphabet == {"A", "a"}
FoldAlphabet == {"A", "B", "a"}
HostAlphabet == {"/", "a"}

StringsOver(chars, n) == UNION {[1..k -> chars] : k \in 0..n}

Strings == StringsOver(Alphabet, MaxLen)
Tokens == StringsOver(TokenAlphabet, MaxTokenLen)
PrefixStrings == StringsOver(PrefixAlphabet, MaxPrefixLen)
FoldStrings == StringsOver(FoldAlphabet, MaxPrefixLen)
HostStrings == StringsOver(HostAlphabet, MaxHostLen)

\* JavaScript null / undefined, where a string is expected.
Null == <<"null">>
\* A list of strings that was never assigned.
NullList == <<Null>>

\* The working directories absolutify resolves relative paths against.
Bases == {<<"/">>, <<"/", "h">>}

(***************************************************************************)
(* String primitives                                                       *)
(***************************************************************************)
Max(S) == CHOOSE x \in S : \A y \in S : y <= x

Min(a, b) == IF a <= b THEN a ELSE b

Contains(s, c) == \E i \in 1..Len(s) : s[i] = c

\* String.prototype.endsWith
EndsWith(s, suffix) ==
    /\ Len(suffix) <= Len(s)
    /\ SubSeq(s, Len(s) - Len(suffix) + 1, Len(s)) = suffix

\* String.prototype.split with a one-character separator.
RECURSIVE Split(_, _)
Split(s, sep) ==
    IF ~Contains(s, sep)
    THEN <<s>>
    ELSE LET i == CHOOSE k \in 1..Len(s) :
                      s[k] = sep /\ \A j \in 1..(k - 1) : s[j] # sep
         IN  <<SubSeq(s, 1, i - 1)>> \o Split(SubSeq(s, i + 1, Len(s)), sep)

\* UTF-16 code unit of a character (the order Array.prototype.sort uses).
CharCode(c) ==
    CASE c = "." -> 46
      [] c = "/" -> 47
      [] c = ":" -> 58
      [] c = "A" -> 65
      [] c = "B" -> 66
      [] c = "\\" -> 92
      [] c = "a" -> 97
      [] c = "b" -> 98
      [] c = "h" -> 104

\* String.prototype.toLowerCase on one character.
ToLowerCase(c) ==
    CASE c = "A" -> "a"
      [] c = "B" -> "b"
      [] OTHER -> c

(***************************************************************************)
(* Host functions                                                          *)
(***************************************************************************)
\* stdPath.sep
NativeSep == "/"

\* stdPath.dirname (Node, POSIX)
Dirname(p) ==
    IF Len(p) = 0
    THEN <<".">>
    ELSE LET hasRoot == p[1] = "/"
             ends == {i \in 2..Len(p) :
                         p[i] = "/" /\ \E j \in (i + 1)..Len(p) : p[j] # "/"}
         IN  IF ends = {}
             THEN IF hasRoot THEN <<"/">> ELSE <<".">>
             ELSE IF hasRoot /\ Max(ends) = 2
                  THEN <<"/", "/">>
                  ELSE SubSeq(p, 1, Max(ends) - 1)

\* utils.preferredSeparatorFor: the separator found in the string; the native
\* one when both or neither are found.
preferredSeparatorFor(path) ==
    LET forward == Contains(path, "/")
        back == Contains(path, "\\")
    IN  IF forward = back THEN NativeSep
        ELSE IF forward THEN "/" ELSE "\\"

RECURSIVE ResolveSegments(_, _)
ResolveSegments(segs, acc) ==
    IF segs = <<>>
    THEN acc
    ELSE LET h == Head(segs)
             next == IF h = <<>> \/ h = <<".">> THEN acc
                     ELSE IF h = <<".", ".">>
                          THEN IF acc = <<>> THEN acc
                               ELSE SubSeq(acc, 1, Len(acc) - 1)
                          ELSE Append(acc, h)
         IN  ResolveSegments(Tail(segs), next)

RECURSIVE JoinAbsolute(_)
JoinAbsolute(segs) ==
    IF segs = <<>> THEN <<>>
    ELSE <<"/">> \o Head(segs) \o JoinAbsolute(Tail(segs))

\* utils.absolutify: the path resolved against the working directory b.
absolutify(b, path) ==
    LET joined == IF path # <<>> /\ path[1] = "/"
                  THEN path
                  ELSE b \o <<"/">> \o path
        segs == ResolveSegments(Split(joined, "/"), <<>>)
    IN  IF segs = <<>> THEN <<"/">> ELSE JoinAbsolute(segs)

(***************************************************************************)
(* class Path                                                              *)
(***************************************************************************)
\* The first segment taken for the last: parts[0]
FragmentOfFirst(path, sep) ==
    LET parts == Split(path, sep) IN parts[1]

\* constructor: parts[parts.length - 1]
FragmentOf(path, sep) ==
    LET parts == Split(path, sep) IN parts[Len(parts)]

\* constructor: path.substring(0, path.length - fragment.length)
DirectoryOf(path, fragment) == SubSeq(path, 1, Len(path) - Len(fragment))

\* new Path(path), constructed while the working directory is b.
Path(b, path) ==
    LET sep == preferredSeparatorFor(path)
        fragment == FragmentOf(path, sep)
    IN  [directory |-> DirectoryOf(path, fragment),
         fragment  |-> fragment,
         full      |-> path,
         absolute  |-> absolutify(b, path),
         sep       |-> sep]

isRoot(p) == Dirname(p.absolute) = p.absolute

\* The separator appended whatever the fragment is.
AsDirectoryFullAlways(p) == p.full \o <<p.sep>>

\* asDirectory: the string handed to the constructor.
AsDirectoryFull(p) == p.full \o (IF p.fragment # <<>> THEN <<p.sep>> ELSE <<>>)

asDirectory(b, p) == Path(b, AsDirectoryFull(p))

\* The dirname of the directory returned as it is.
ParentOfDirectoryBare(p) == Dirname(p.directory)

\* parent, third branch: dirname of the directory, a separator appended if
\* it does not end with one.
ParentOfDirectory(p) ==
    LET newFull == Dirname(p.directory)
    IN  IF ~EndsWith(newFull, <<p.sep>>) THEN newFull \o <<p.sep>> ELSE newFull

parent(b, p) ==
    IF isRoot(p) THEN p
    ELSE IF p.fragment # <<>> THEN Path(b, p.directory)
    ELSE Path(b, ParentOfDirectory(p))

\* The loop body without the call of dirname.
RootStepStuck(c) == c

\* root: one pass of the loop body, current = stdPath.dirname(current)
RootStep(c) == Dirname(c)

\* The test of the fragment left out.
hasShortcutAnyFragment(p, shortcut) ==
    LET sc == shortcut \o <<p.sep>>
    IN  \/ EndsWith(p.directory, <<p.sep>> \o sc)
        \/ p.directory = sc

hasShortcut(p, shortcut) ==
    LET sc == shortcut \o <<p.sep>>
    IN  /\ p.fragment = <<>>
        /\ \/ EndsWith(p.directory, <<p.sep>> \o sc)
           \/ p.directory = sc

(***************************************************************************)
(* Path.commonPrefix                                                       *)
(***************************************************************************)
\* The order of Array.prototype.sort without a comparator: by code units,
\* a proper prefix before the longer string.
StringLess(a, b) ==
    \E k \in 1..(Min(Len(a), Len(b)) + 1) :
        /\ \A j \in 1..(k - 1) : a[j] = b[j]
        /\ IF k <= Len(a) /\ k <= Len(b)
           THEN CharCode(a[k]) < CharCode(b[k])
           ELSE k > Len(a) /\ k <= Len(b)

RECURSIVE Insert(_, _)
Insert(x, list) ==
    IF list = <<>> THEN <<x>>
    ELSE IF StringLess(Head(list), x)
         THEN <<Head(list)>> \o Insert(x, Tail(list))
         ELSE <<x>> \o list

RECURSIVE Sort(_)
Sort(list) ==
    IF list = <<>> THEN <<>> ELSE Insert(Head(list), Sort(Tail(list)))

\* paths.map((path) => path.full).sort()
SortedFulls(ps) == Sort([i \in 1..Len(ps) |-> ps[i].full])

\* The length test off by one: paths.length < 1
TooFewOffByOne(ps) == Len(ps) < 1

\* paths.length < 2
TooFew(ps) == Len(ps) < 2

\* The for loop, from position k on.
RECURSIVE PrefixLoop(_, _, _, _)
PrefixLoop(first, lastS, k, cs) ==
    IF k > Min(Len(first), Len(lastS)) THEN <<>>
    ELSE IF first[k] = lastS[k]
         THEN <<first[k]>> \o PrefixLoop(first, lastS, k + 1, cs)
    ELSE IF ~cs /\ ToLowerCase(first[k]) = ToLowerCase(lastS[k])
         THEN <<ToLowerCase(first[k])>> \o PrefixLoop(first, lastS, k + 1, cs)
    ELSE <<>>

\* The first two of the sorted strings compared.
PrefixOfSortedFirstTwo(list, cs) == PrefixLoop(list[1], list[Min(2, Len(list))], 1, cs)

\* The first and the last of the sorted strings are the two compared.
PrefixOfSorted(list, cs) == PrefixLoop(list[1], list[Len(list)], 1, cs)

commonPrefix(b, ps, cs) == Path(b, PrefixOfSorted(SortedFulls(ps), cs))

(***************************************************************************)
(* Path.initial                                                            *)
(***************************************************************************)
DEFAULT_ACTIVE_FILE_DIR == "activeFileDir"
DEFAULT_PROJECT_ROOT == "projectRoot"
Preferences == {DEFAULT_ACTIVE_FILE_DIR, DEFAULT_PROJECT_ROOT, "other"}

\* JavaScript truthiness of an optional string.
Truthy(s) == s # Null /\ s # <<>>

\* utils.getProjectPath
getProjectPath(proj) == proj

\* case config.DEFAULT_PROJECT_ROOT, and the return after the switch.
ProjectRootCase(b, proj) ==
    IF Truthy(getProjectPath(proj))
    THEN Path(b, getProjectPath(proj) \o <<NativeSep>>)
    ELSE Path(b, <<>>)

\* The case ended by a break: no fall back to the project root.
ActiveFileCaseBreaks(b, ed, proj) ==
    IF ed.present /\ Truthy(ed.path)
    THEN Path(b, Dirname(ed.path) \o <<NativeSep>>)
    ELSE Path(b, <<>>)

\* case config.DEFAULT_ACTIVE_FILE_DIR, falling through to the next case.
ActiveFileCase(b, ed, proj) ==
    IF ed.present /\ Truthy(ed.path)
    THEN Path(b, Dirname(ed.path) \o <<NativeSep>>)
    ELSE ProjectRootCase(b, proj)

initial(b, pr, ed, proj) ==
    IF pr = DEFAULT_ACTIVE_FILE_DIR THEN ActiveFileCase(b, ed, proj)
    ELSE IF pr = DEFAULT_PROJECT_ROOT THEN ProjectRootCase(b, proj)
    ELSE Path(b, <<>>)

(***************************************************************************)
(* Operations on a Path value                                              *)
(***************************************************************************)
Shift(p, name) ==
    /\ prev' = cur
    /\ cur' = p
    /\ prevOp' = op
    /\ op' = name
    /\ token' = Null
    /\ answer' = FALSE

AsDirectory ==
    /\ pc = "idle"
    /\ Shift(asDirectory(base, cur), "asDirectory")
    /\ UNCHANGED <<base, loopVars, prefixVars, hostVars>>

Parent ==
    /\ pc = "idle"
    /\ Shift(parent(base, cur), "parent")
    /\ UNCHANGED <<base, loopVars, prefixVars, hostVars>>

RootBegin ==
    /\ pc = "idle"
    /\ pc' = "root"
    /\ last' = Null
    /\ current' = cur.absolute
    /\ iters' = 0
    /\ token' = Null
    /\ answer' = FALSE
    /\ UNCHANGED <<base, pathVars, prefixVars, hostVars>>

RootLoop ==
    /\ pc = "root"
    /\ current # last
    /\ last' = current
    /\ current' = RootStep(current)
    /\ iters' = iters + 1
    /\ UNCHANGED <<base, pc, pathVars, queryVars, prefixVars, hostVars>>

RootReturn ==
    /\ pc = "root"
    /\ current = last
    /\ pc' = "idle"
    /\ Shift(Path(base, current), "root")
    /\ UNCHANGED <<base, last, current, iters, prefixVars, hostVars>>

HasShortcut ==
    /\ pc = "idle"
    /\ \E t \in Tokens :
          /\ token' = t
          /\ answer' = hasShortcut(cur, t)
    /\ UNCHANGED <<base, pathVars, loopVars, prefixVars, hostVars>>

EmptyHost ==
    /\ pref = "other"
    /\ editor = [present |-> FALSE, path |-> Null]
    /\ projectPath = Null

EmptyPrefix ==
    /\ paths = <<>>
    /\ caseSensitive = FALSE
    /\ sorted = NullList
    /\ thrown = FALSE

CommonPrefixThrow ==
    /\ pc = "idle"
    /\ TooFew(paths)
    /\ thrown' = TRUE
    /\ sorted' = NullList
    /\ op' = "commonPrefix"
    /\ prevOp' = op
    /\ UNCHANGED <<base, prev, cur, loopVars, queryVars, paths, caseSensitive,
                   hostVars>>

CommonPrefixReturn ==
    /\ pc = "idle"
    /\ ~TooFew(paths)
    /\ thrown' = FALSE
    /\ sorted' = SortedFulls(paths)
    /\ Shift(commonPrefix(base, paths, caseSensitive), "commonPrefix")
    /\ UNCHANGED <<base, loopVars, paths, caseSensitive, hostVars>>

Initial ==
    /\ pc = "idle"
    /\ Shift(initial(base, pref, editor, projectPath), "initial")
    /\ UNCHANGED <<base, loopVars, prefixVars, hostVars>>

Fresh ==
    /\ prev = cur
    /\ op = "new"
    /\ prevOp = "none"
    /\ pc = "idle"
    /\ last = Null
    /\ current = Null
    /\ iters = 0
    /\ token = Null
    /\ answer = FALSE

Init ==
    /\ base \in Bases
    /\ \E s \in Strings : cur = Path(base, s)
    /\ Fresh
    /\ EmptyPrefix
    /\ EmptyHost

Next ==
    \/ AsDirectory
    \/ Parent
    \/ RootBegin
    \/ RootLoop
    \/ RootReturn
    \/ HasShortcut

Spec == Init /\ [][Next]_vars

\* root() alone: once called, the loop runs to its return.
NextRoot ==
    \/ RootBegin
    \/ RootLoop
    \/ RootReturn

SpecRoot ==
    /\ Init
    /\ [][NextRoot]_vars
    /\ WF_vars(RootLoop)
    /\ WF_vars(RootReturn)

\* Path.commonPrefix on every list of up to MaxPaths paths.
PathLists(b, strings) ==
    UNION {[1..n -> {Path(b, s) : s \in strings}] : n \in 0..MaxPaths}

InitPrefix ==
    /\ base = <<"/", "h">>
    /\ cur = Path(base, <<>>)
    /\ Fresh
    /\ paths \in PathLists(base, PrefixStrings)
    /\ caseSensitive \in BOOLEAN
    /\ sorted = NullList
    /\ thrown = FALSE
    /\ EmptyHost

NextPrefix ==
    \/ CommonPrefixThrow
    \/ CommonPrefixReturn

SpecPrefix == InitPrefix /\ [][NextPrefix]_vars

\* Path.commonPrefix with the default caseSensitive = false, on paths that
\* differ in more than the case of their letters.
InitFold ==
    /\ base = <<"/", "h">>
    /\ cur = Path(base, <<>>)
    /\ Fresh
    /\ paths \in PathLists(base, FoldStrings)
    /\ caseSensitive = FALSE
    /\ sorted = NullList
    /\ thrown = FALSE
    /\ EmptyHost

SpecFold == InitFold /\ [][NextPrefix]_vars

\* Path.initial in every state of the host.
Editors ==
    {[present |-> FALSE, path |-> Null]}
        \cup {[present |-> TRUE, path |-> s] : s \in HostStrings \cup {Null}}

InitInitial ==
    /\ base \in Bases
    /\ cur = Path(base, <<>>)
    /\ Fresh
    /\ EmptyPrefix
    /\ pref \in Preferences
    /\ editor \in Editors
    /\ projectPath \in HostStrings \cup {Null}

NextInitial == Initial

SpecInitial == InitInitial /\ [][NextInitial]_vars

(***************************************************************************)
(* Vocabulary of the properties                                            *)
(***************************************************************************)
StartsWith(s, pre) ==
    /\ Len(pre) <= Len(s)
    /\ \A i \in 1..Len(pre) : s[i] = pre[i]

StartsWithIgnoringCase(s, pre) ==
    /\ Len(pre) <= Len(s)
    /\ \A i \in 1..Len(pre) : ToLowerCase(s[i]) = ToLowerCase(pre[i])

HasSuffix(s, suf) ==
    /\ Len(suf) <= Len(s)
    /\ \A i \in 1..Len(suf) : s[Len(s) - Len(suf) + i] = suf[i]

Occurrences(s, c) == {i \in 1..Len(s) : s[i] = c}

\* No string one character longer than r is a prefix of every path: a path
\* ends where r ends, or two paths differ right after it.
NoLongerPrefix(r, ps, same(_, _)) ==
    \/ \E i \in 1..Len(ps) : Len(ps[i].full) = Len(r)
    \/ \E i, j \in 1..Len(ps) :
          ~same(ps[i].full[Len(r) + 1], ps[j].full[Len(r) + 1])

SameChar(a, b) == a = b

SameCharIgnoringCase(a, b) == ToLowerCase(a) = ToLowerCase(b)

Permuted(ps, f) == [i \in 1..Len(ps) |-> ps[f[i]]]

\* The decomposition the constructor is to make of p.full.
SplitsAtLastSeparator(p) ==
    /\ p.sep \in {"/", "\\"}
    /\ p.directory \o p.fragment = p.full
    /\ ~Contains(p.fragment, p.sep)
    /\ IF Contains(p.full, p.sep)
       THEN /\ Len(p.directory) = Max(Occurrences(p.full, p.sep))
            /\ p.fragment = SubSeq(p.full, Len(p.directory) + 1, Len(p.full))
       ELSE /\ p.directory = <<>>
            /\ p.fragment = p.full

DirectoryForm(p) ==
    /\ p.fragment = <<>>
    /\ p.full # <<>>
    /\ p.full[Len(p.full)] = p.sep

(***************************************************************************)
(* Properties                                                              *)
(***************************************************************************)

\* C1: with caseSensitive = false, the result of commonPrefix on two or more
\* paths is a prefix of every given path when characters are compared without
\* regard to case, and no longer string is.
C1_CommonPrefixIgnoringCase ==
    (op = "commonPrefix" /\ ~thrown /\ ~caseSensitive) =>
        /\ \A i \in 1..Len(paths) : StartsWithIgnoringCase(paths[i].full, cur.full)
        /\ NoLongerPrefix(cur.full, paths, SameCharIgnoringCase)

\* C2: every constructed Path splits its string at the last occurrence of its
\* separator: directory + fragment = full, the fragment holds no separator and
\* is all that follows the last separator (the whole string when there is none).
C2_ConstructorSplits ==
    /\ SplitsAtLastSeparator(cur)
    /\ SplitsAtLastSeparator(prev)

C2_Witness ==
    /\ op = "new"
    /\ Cardinality(Occurrences(cur.full, cur.sep)) >= 2
    /\ cur.fragment # <<>>

\* C3 as stated: parent() always returns a path whose fragment is empty and
\* whose full ends with a separator.
C3_ParentIsDirectoryForm ==
    op = "parent" => DirectoryForm(cur)

\* C3 amended: parent() returns the path itself when it is a root; otherwise the
\* result has an empty fragment and the separator of the path, and its full ends
\* with that separator, except that it is the empty string when the path is a
\* non-empty string without a separator.
C3_ParentAmended ==
    op = "parent" =>
        IF isRoot(prev)
        THEN cur = prev
        ELSE /\ cur.fragment = <<>>
             /\ cur.sep = prev.sep
             /\ IF prev.directory = <<>> /\ prev.fragment # <<>>
                THEN cur.full = <<>>
                ELSE DirectoryForm(cur)

C3_Witness ==
    /\ op = "parent"
    /\ ~isRoot(prev)
    /\ prev.fragment = <<>>
    /\ cur.full # prev.full
    /\ DirectoryForm(cur)

\* C4: commonPrefix raises exactly when the list holds fewer than two paths,
\* and then before anything is sorted or returned; otherwise it returns a Path.
C4_ThrowsIffFewerThanTwo ==
    op = "commonPrefix" =>
        /\ thrown <=> Len(paths) < 2
        /\ thrown => (sorted = NullList /\ cur = prev)
        /\ ~thrown => (Len(sorted) = Len(paths) /\ cur = Path(base, cur.full))

C4_Witness ==
    /\ op = "commonPrefix"
    /\ thrown
    /\ Len(paths) = 1

\* C5: the loop of root(), once entered, is left after at most as many passes
\* as the absolute path has characters; the path root() returns is a fixed
\* point of dirname; and root() of a path that root() returned has the same
\* full.
C5_RootTerminatesAtFixedPoint ==
    /\ [](pc = "root" => iters <= Len(cur.absolute))
    /\ (pc = "root") ~> (pc = "idle" /\ op = "root")
    /\ [](op = "root" =>
            /\ Dirname(cur.full) = cur.full
            /\ prevOp = "root" => cur.full = prev.full)

C5_Witness ==
    /\ op = "root"
    /\ prevOp = "root"
    /\ iters >= 1

\* C6: hasShortcut(t) is true exactly when the fragment is empty and the
\* directory ends with sep + t + sep or is t + sep, characters compared exactly.
C6_HasShortcut ==
    /\ token # Null =>
          (answer <=>
              /\ cur.fragment = <<>>
              /\ \/ HasSuffix(cur.directory, <<cur.sep>> \o token \o <<cur.sep>>)
                 \/ cur.directory = token \o <<cur.sep>>)
    /\ hasShortcut(Path(base, <<"/", "f", "o", "o", "/", "b", "a", "r", "/", ":", "/">>), <<":">>)
    /\ hasShortcut(Path(base, <<":", "/">>), <<":">>)
    /\ ~hasShortcut(Path(base, <<"/", "f", "o", "o", "/", "b", "a", "r", ":", "/">>), <<":">>)
    /\ ~hasShortcut(Path(base, <<"/", "b", "l", "a", "h", "/", ":">>), <<":">>)

C6_Witness ==
    /\ token = <<":">>
    /\ answer
    /\ cur.directory # token \o <<cur.sep>>

\* The string Path.initial is to construct its result from.
InitialFull ==
    IF pref = DEFAULT_ACTIVE_FILE_DIR /\ editor.present /\ Truthy(editor.path)
    THEN Dirname(editor.path) \o <<NativeSep>>
    ELSE IF pref \in {DEFAULT_ACTIVE_FILE_DIR, DEFAULT_PROJECT_ROOT}
            /\ Truthy(projectPath)
         THEN projectPath \o <<NativeSep>>
         ELSE <<>>

\* C7: Path.initial returns the directory of the active document when the
\* preference asks for it and the document has a path, else the project root
\* when the preference is one of the two and a project root is known, else the
\* empty path; each with the native separator appended; the host state is not
\* modified.
C7_InitialOrder ==
    /\ [](op = "initial" => cur = Path(base, InitialFull))
    /\ [][UNCHANGED hostVars]_vars

C7_Witness ==
    /\ op = "initial"
    /\ pref = DEFAULT_ACTIVE_FILE_DIR
    /\ ~(editor.present /\ Truthy(editor.path))
    /\ Truthy(projectPath)
    /\ cur.full = projectPath \o <<NativeSep>>

\* C8: asDirectory() appends the separator exactly when the fragment is not
\* empty, returns a path with an empty fragment and the same separator, and
\* applied to its own result returns the same full.
C8_AsDirectoryIdempotent ==
    op = "asDirectory" =>
        /\ cur.fragment = <<>>
        /\ cur.full = (IF prev.fragment # <<>>
                       THEN prev.full \o <<prev.sep>>
                       ELSE prev.full)
        /\ prev.fragment # <<>> => cur.sep = prev.sep
        /\ prevOp = "asDirectory" => cur.full = prev.full

C8_Witness ==
    /\ op = "asDirectory"
    /\ prevOp = "asDirectory"
    /\ cur.sep = "\\"
    /\ Len(cur.full) >= 2

\* C9: the parent() of a path that is not a root is another path.
C9_ParentMovesUp ==
    (op = "parent" /\ ~isRoot(prev)) => cur.full # prev.full

\* C10: with caseSensitive = true, the result of commonPrefix on two or more
\* paths is a prefix of every given path, no longer string is, every order of
\* the list gives the same result, and the list itself is left as it was.
C10_CommonPrefixExact ==
    /\ []((op = "commonPrefix" /\ ~thrown /\ caseSensitive) =>
            /\ \A i \in 1..Len(paths) : StartsWith(paths[i].full, cur.full)
            /\ NoLongerPrefix(cur.full, paths, SameChar)
            /\ \A f \in Permutations(1..Len(paths)) :
                  commonPrefix(base, Permuted(paths, f), TRUE).full = cur.full)
    /\ [][paths' = paths]_vars

C10_Witness ==
    /\ op = "commonPrefix"
    /\ ~thrown
    /\ caseSensitive
    /\ Len(paths) = 3
    /\ cur.full # <<>>
    /\ \E i \in 1..Len(paths) : paths[i].full # sorted[i]

====
